---- MODULE Spec2Model ----
(***************************************************************************)
(* Model of the multi-step feature pipeline of level-4-agent-code:         *)
(* scripts/master-flow.ts (the orchestrator), lib/agents/commit-step-flow  *)
(* and pr-step-flow (the partial and the final review/test flows),         *)
(* lib/agents/text-to-feature (file changes, commit+push, pull request),   *)
(* lib/agents/planner, test-fix, test-proposals, test-gating, code-review, *)
(* github-comments and test-runner.                                        *)
(*                                                                         *)
(* One run of main() is one behaviour.  The LLM, git, the GitHub API and   *)
(* the test command are the environment: their answers are chosen with \E. *)
(***************************************************************************)
EXTENDS Integers, Sequences, FiniteSets, TLC

----------------------------------------------------------------------------
(* Bounds of the model *)

MaxSteps == 2
MaxChanges == 2
MaxProposals == 1
MaxCalls == 3
MaxRaw == 2
MaxChangedFiles == 1
MaxTreeFiles == 1

(* Program constants *)

\* if (content.length > 20000)
SnapshotCap == 20000

maxIterations == 3

(* Input alphabets *)

Paths == {"app/a.tsx", "app/b.ts"}
TestPaths == {"__tests__/unit/a.test.tsx"}
AllPaths == Paths \cup TestPaths
Contents == {"v1", "v2"}
Absent == "absent"

FileChange == [file : Paths, content : Contents]
TestProposal == [filename : TestPaths, testContent : Contents]

SeqsUpTo(S, n) == UNION {[1..k -> S] : k \in 0..n}

ChangeLists == SeqsUpTo(FileChange, MaxChanges)
ProposalLists == SeqsUpTo(TestProposal, MaxProposals)

StepNames == {"Step", "PlanError"}

----------------------------------------------------------------------------
VARIABLES
  pc,                 \* position of main() / of the flow it is awaiting
  exitCode,           \* -1 while running, else the process exit code
  exitAt,             \* the statement that ended the process ("none" while running)
  env,                \* process.env: which settings are present
  variant,            \* which runFlowOnLatestCommit the build uses
  steps,              \* const steps = await runPlanner(...)
  i,                  \* 1-based number of the step being handled
  newChanges,         \* firstChanges / newChanges of the step in progress (<<>> once
                      \* the step has merged and committed them)
  accumulatedChanges, \* let accumulatedChanges: FileChange[]
  promptPrior,        \* parameter accumulatedChanges of the getFileChangesForStep call
                      \* that returned last (<<>> once its result is in use)
  disk,               \* working tree: path -> content or Absent
  head,               \* tree of the local branch tip
  commits,            \* number of commits of the run on the local branch
  lastMsg,            \* message of the local branch tip
  remote,             \* number of the run's commits on the remote branch (0: no branch)
  behind,             \* number of commits another writer has pushed to the remote
                      \* branch and the local branch does not hold yet
  prNumber,           \* 0: not yet ensured, else the PR number
  prCreated,          \* number of octokit.pulls.create calls that succeeded
  prBody,             \* body of the pull request
  flow,               \* "none", "partial" or "final": the flow called last
  caller,             \* who called commitChanges: "step" or "fix"
  reviewBody,         \* local reviewBody of the flow
  testBody,           \* local testBody of the flow
  fixBody,            \* handleTestFix's / handleTestGeneration's own copy of testBody
  reviewComment,      \* body of the flow's review comment on the PR (<<>>: none)
  testComment,        \* body of the flow's test comment on the PR (<<>>: none)
  nComments,          \* comments created on the PR by the run: [review, test]
  reviewAnalysis,     \* "none", "ok" or "fallback"
  patch,              \* the context's patchOutput until the review has read it:
                      \* "diff" (git's output), "fallback" (git diff threw), else "none"
  gating,             \* "none", "generate", "skip" or "error"
  proposals,          \* proposals of the handleTestFix in progress
  testResult,         \* "none", "pass" or "fail": the last runLocalTests of the flow
  iteration,          \* let iteration = 0
  testRuns,           \* number of runLocalTests calls of the flow
  flowResult,         \* "none", "true" or "false": what the flow returned
  emptyStep,          \* the step in progress got an empty FileChange list
  lastEmit,           \* path -> [n, content]: content of the latest FileChange emitted
                      \* for it, n its rank in the order of latest emission (0: none)
  phase,              \* per-step event counters of the run
  unit                \* the call in progress when one function of the pipeline is
                      \* run on its own: its name, its arguments, its locals and
                      \* what it returned ([fn |-> "none"] in a run of main())

mainVars == <<pc, exitCode, exitAt, env, variant, steps, i, newChanges,
              accumulatedChanges, promptPrior>>
gitVars == <<disk, head, commits, lastMsg, remote, behind>>
prVars == <<prNumber, prCreated, prBody>>
flowVars == <<flow, caller, reviewBody, testBody, fixBody, reviewComment,
              testComment, nComments, reviewAnalysis, patch, gating, proposals,
              testResult, iteration, testRuns, flowResult>>
ghostVars == <<emptyStep, lastEmit, phase>>

progVars == <<mainVars, gitVars, prVars, flowVars, ghostVars>>

vars == <<progVars, unit>>

----------------------------------------------------------------------------
(* Helpers *)

Last(s) == s[Len(s)]

RECURSIVE FilterOut(_, _)
\* accumulatedChanges.filter(a => a.file !== f)
FilterOut(acc, f) ==
  IF acc = <<>> THEN <<>>
  ELSE IF Head(acc).file = f THEN FilterOut(Tail(acc), f)
       ELSE <<Head(acc)>> \o FilterOut(Tail(acc), f)

\* One turn of the accumulation loop, as a variant that appends without
\* removing the older entry of the same file.
MergeOneNoFilter(acc, fc) == Append(acc, fc)

\* One turn of the accumulation loop:
\*   accumulatedChanges = accumulatedChanges.filter(a => a.file !== fc.file)
\*   accumulatedChanges.push(fc)
MergeOne(acc, fc) == Append(FilterOut(acc, fc.file), fc)

RECURSIVE MergeAll(_, _)
\* for (const fc of changes) { ...MergeOne... }
MergeAll(acc, changes) ==
  IF changes = <<>> THEN acc
  ELSE MergeAll(MergeOne(acc, Head(changes)), Tail(changes))

RECURSIVE WriteAll(_, _)
\* applyFileChanges: fs.writeFileSync(target, change.content) for each change in order
WriteAll(d, changes) ==
  IF changes = <<>> THEN d
  ELSE WriteAll([d EXCEPT ![Head(changes).file] = Head(changes).content],
                Tail(changes))

RECURSIVE WriteTests(_, _)
\* commitTestsLocally: fs.writeFileSync(localPath, p.testContent) for each proposal
WriteTests(d, ps) ==
  IF ps = <<>> THEN d
  ELSE WriteTests([d EXCEPT ![Head(ps).filename] = Head(ps).testContent],
                  Tail(ps))

\* the record of emissions after one more FileChange: its file becomes the
\* most recently touched one, the files touched after its previous emission
\* move down by one
Touch(le, fc) ==
  LET old == le[fc.file].n
      k == Cardinality({p \in DOMAIN le : le[p].n > 0})
  IN  [p \in DOMAIN le |->
         IF p = fc.file
         THEN [n |-> IF old = 0 THEN k + 1 ELSE k, content |-> fc.content]
         ELSE IF old > 0 /\ le[p].n > old
              THEN [n |-> le[p].n - 1, content |-> le[p].content]
              ELSE le[p]]

RECURSIVE Stamp(_, _)
\* the record of emissions after a list of FileChanges, in list order
Stamp(le, changes) ==
  IF changes = <<>> THEN le
  ELSE Stamp(Touch(le, Head(changes)), Tail(changes))

Bump(f) == [phase EXCEPT ![f] = @ + 1]

\* phase.offPath becomes 1 once some flow of the run had gating ask for tests
\* or a test run fail
OffPath(b) == IF b THEN [phase EXCEPT !.offPath = 1] ELSE phase

----------------------------------------------------------------------------
(* Initial state: main() has not started; the branch has no commit of the  *)
(* run; the environment may lack any of its settings.                      *)

ProgramInit ==
  /\ pc = "start"
  /\ exitCode = -1
  /\ exitAt = "none"
  /\ env \in [featureRequest : BOOLEAN, githubToken : BOOLEAN,
              githubRepository : BOOLEAN, apiKey : BOOLEAN]
  /\ variant \in {"tests", "reviewOnly"}
  /\ steps = <<>>
  /\ i = 0
  /\ newChanges = <<>>
  /\ accumulatedChanges = <<>>
  /\ promptPrior = <<>>
  /\ disk = [p \in AllPaths |-> Absent]
  /\ head = [p \in AllPaths |-> Absent]
  /\ commits = 0
  /\ lastMsg = <<"base", 0>>
  /\ remote = 0
  /\ behind = 0
  /\ prNumber = 0
  /\ prCreated = 0
  /\ prBody = "none"
  /\ flow = "none"
  /\ caller = "none"
  /\ reviewBody = <<>>
  /\ testBody = <<>>
  /\ fixBody = <<>>
  /\ reviewComment = <<>>
  /\ testComment = <<>>
  /\ nComments = [review |-> 0, test |-> 0]
  /\ reviewAnalysis = "none"
  /\ patch = "none"
  /\ gating = "none"
  /\ proposals = <<>>
  /\ testResult = "none"
  /\ iteration = 0
  /\ testRuns = 0
  /\ flowResult = "none"
  /\ emptyStep = FALSE
  /\ lastEmit = [p \in Paths |-> [n |-> 0, content |-> Absent]]
  /\ phase = [gen |-> 0, write |-> 0, commit |-> 0, push |-> 0,
              review |-> 0, reviewed |-> 0, final |-> 0, plan |-> 0,
              offPath |-> 0]

\* no function is run on its own
NoCall == [fn |-> "none"]

Init == ProgramInit /\ unit = NoCall

\* process.exit(code), also through main().catch
Exit(code) ==
  /\ pc' = "exit"
  /\ exitCode' = code
  /\ exitAt' = pc


----------------------------------------------------------------------------
(* Control flow of main(): which statement follows which *)

\* main() with the pull request ensured before anything is generated
AfterPlanPRFirst == "ensurePR"

\* after runPlanner returned a non-empty plan: step 1 is generated
AfterPlan == "gen"

\* applyFileChanges followed directly by commitChanges in every step
AfterApplyNoMerge == "commit"

\* after applyFileChanges: step 1 merges into accumulatedChanges first,
\* the later steps commit first
AfterApply == IF i = 1 THEN "merge" ELSE "commit"

\* the accumulation loop followed directly by the partial flow
AfterMergeNoCommit == "f_ctx"

\* after the accumulation loop: step 1 commits, the later steps run the flow
AfterMerge == IF i = 1 THEN "commit" ELSE "f_ctx"

\* commitChanges of step 1 followed directly by the partial flow
AfterStepPushNoPR == IF i = 1 THEN "f_ctx" ELSE "merge"

\* after commitChanges of a step returned
AfterStepPush == IF i = 1 THEN "ensurePR" ELSE "merge"

\* a for loop that stays on the same step
NextStepSame == i

\* for (let i = 1; i < steps.length; i++): the step after step i
NextStep == i + 1

\* a flow result that is never taken as a failure
FlowFailedNever == FALSE

\* if (!success) / if (!finalSuccess)
FlowFailed == flowResult = "false"

----------------------------------------------------------------------------
(* main(): environment, branch, plan *)

\* if (!featureRequest) ... if (!githubToken) ... if (!repoStr) process.exit(1)
CheckEnv ==
  /\ pc = "start"
  /\ IF env.featureRequest /\ env.githubToken /\ env.githubRepository
     THEN pc' = "switch" /\ UNCHANGED <<exitCode, exitAt>>
     ELSE Exit(1)
  /\ UNCHANGED <<env, variant, steps, i, newChanges, accumulatedChanges, promptPrior>>
  /\ UNCHANGED <<gitVars, prVars, flowVars, ghostVars>>
  /\ UNCHANGED unit

\* switchToFeatureBranch(branchName): checkout main, pull, fetch, checkout -b;
\* any failing git invocation is rethrown and ends in main().catch
SwitchToFeatureBranch ==
  /\ pc = "switch"
  /\ \/ pc' = "plan" /\ UNCHANGED <<exitCode, exitAt>>
     \/ Exit(1)
  /\ UNCHANGED <<env, variant, steps, i, newChanges, accumulatedChanges, promptPrior>>
  /\ UNCHANGED <<gitVars, prVars, flowVars, ghostVars>>
  /\ UNCHANGED unit

\* what a generateObject call does: it returns an object of the schema, it
\* throws (network, provider), or it throws because the answer does not
\* validate against the schema
LLMOutcomes == {"ok", "error", "schema"}

\* a runPlanner whose catch rethrows
RunPlannerThrows(apiKey, llm, n) ==
  IF apiKey /\ llm = "ok"
  THEN [thrown |-> FALSE, steps |-> [k \in 1..n |-> "Step"]]
  ELSE [thrown |-> TRUE, steps |-> <<>>]

\* runPlanner(featureRequest), the LLM answering with n steps when it
\* answers: getLLMModel() is outside the try and throws without an API key;
\* the try returns result.object.steps, the catch the one-step PlanError list
RunPlannerOutcome(apiKey, llm, n) ==
  IF ~apiKey
  THEN [thrown |-> TRUE, steps |-> <<>>]
  ELSE IF llm = "ok"
       THEN [thrown |-> FALSE, steps |-> [k \in 1..n |-> "Step"]]
       ELSE [thrown |-> FALSE, steps |-> <<"PlanError">>]

\* what runPlanner can return: the steps of the LLM's object (possibly none),
\* or the one-step PlanError list when generateObject throws
PlannerResults ==
  {RunPlannerOutcome(TRUE, llm, n).steps : llm \in LLMOutcomes, n \in 0..MaxSteps}

\* const steps = await runPlanner(featureRequest); if (!steps.length) process.exit(0)
\* getLLMModel() is called outside runPlanner's try and throws without an API key
RunPlanner ==
  /\ pc = "plan"
  /\ IF ~env.apiKey
     THEN Exit(1) /\ UNCHANGED <<steps, i, phase>>
     ELSE \E result \in PlannerResults :
            /\ steps' = result
            /\ phase' = Bump("plan")
            /\ IF result = <<>>
               THEN Exit(0) /\ UNCHANGED i
               ELSE pc' = AfterPlan /\ i' = 1 /\ UNCHANGED <<exitCode, exitAt>>
  /\ UNCHANGED <<env, variant, newChanges, accumulatedChanges, promptPrior>>
  /\ UNCHANGED <<gitVars, prVars, flowVars, emptyStep, lastEmit>>
  /\ UNCHANGED unit

----------------------------------------------------------------------------
(* main(): one step *)

\* await getFileChangesForStep(step, accumulatedChanges): the LLM's changedFiles,
\* or [] when generateObject throws
GetFileChangesForStep ==
  /\ pc = "gen"
  /\ \E changes \in ChangeLists :
       /\ newChanges' = changes
       /\ lastEmit' = Stamp(lastEmit, changes)
       /\ emptyStep' = (changes = <<>>)
  /\ promptPrior' = accumulatedChanges
  /\ phase' = Bump("gen")
  /\ pc' = "apply"
  /\ UNCHANGED <<exitCode, exitAt, env, variant, steps, i, accumulatedChanges>>
  /\ UNCHANGED <<gitVars, prVars, flowVars>>
  /\ UNCHANGED unit

\* applyFileChanges(newChanges)
ApplyFileChanges ==
  /\ pc = "apply"
  /\ disk' = WriteAll(disk, newChanges)
  /\ phase' = Bump("write")
  /\ pc' = AfterApply
  /\ caller' = "step"
  /\ promptPrior' = <<>>
  /\ UNCHANGED <<exitCode, exitAt, env, variant, steps, i, newChanges, accumulatedChanges>>
  /\ UNCHANGED <<head, commits, lastMsg, remote, behind, prVars, emptyStep, lastEmit>>
  /\ UNCHANGED <<flow, reviewBody, testBody, fixBody, reviewComment, testComment,
                 nComments, reviewAnalysis, patch, gating, proposals, testResult, iteration,
                 testRuns, flowResult>>
  /\ UNCHANGED unit

\* for (const fc of newChanges) { filter; push }
MergeChanges ==
  /\ pc = "merge"
  /\ accumulatedChanges' = MergeAll(accumulatedChanges, newChanges)
  /\ pc' = AfterMerge
  /\ UNCHANGED <<exitCode, exitAt, env, variant, steps, i, newChanges, promptPrior>>
  /\ UNCHANGED <<gitVars, prVars, flowVars, ghostVars>>
  /\ UNCHANGED unit

----------------------------------------------------------------------------
(* commitChanges(message), called by main for a step and by handleTestFix *)

CommitMessage ==
  IF caller = "step" THEN <<"Step", i>> ELSE <<"AI test fix attempt", iteration>>

\* git add . ; git commit -m message : git commit exits non-zero when nothing
\* is staged, so it succeeds only on a working tree that differs from HEAD
CommitOk ==
  /\ pc = "commit"
  /\ disk # head
  /\ head' = disk
  /\ commits' = commits + 1
  /\ lastMsg' = CommitMessage
  /\ phase' = IF caller = "step" THEN Bump("commit") ELSE phase
  /\ pc' = "rebase"
  /\ UNCHANGED <<exitCode, exitAt, env, variant, steps, i, newChanges, accumulatedChanges,
                 promptPrior>>
  /\ UNCHANGED <<disk, remote, behind, prVars, flowVars, emptyStep, lastEmit>>
  /\ UNCHANGED unit

\* commitChanges with a catch that only logs
CommitChangesSwallows == FALSE

\* catch (error) { console.error(...); throw error }
CommitChangesRethrows == TRUE

\* where commitChanges returns to
AfterPush == IF caller = "step" THEN AfterStepPush ELSE "f_fixed"

\* execSync throws (nothing to commit, or any other git failure): rethrown by
\* commitChanges, caught by main().catch
CommitFails ==
  /\ pc = "commit"
  /\ IF CommitChangesRethrows
     THEN Exit(1)
     ELSE pc' = AfterPush /\ UNCHANGED <<exitCode, exitAt>>
  /\ UNCHANGED <<env, variant, steps, i, newChanges, accumulatedChanges, promptPrior>>
  /\ UNCHANGED <<gitVars, prVars, flowVars, ghostVars>>
  /\ UNCHANGED unit

\* another writer pushes a commit to the same remote branch while
\* commitChanges is between its commit and its push.  (A push by another
\* writer at any other time is seen by the run only at its next fetch, so it
\* is taken to happen here.)
ForeignPush ==
  /\ pc \in {"rebase", "push"}
  /\ behind = 0
  /\ behind' = 1
  /\ UNCHANGED <<mainVars, disk, head, commits, lastMsg, remote, prVars, flowVars,
                 ghostVars>>
  /\ UNCHANGED unit

\* git ls-remote --heads origin <branch> has output
BranchExistsOnRemote == remote > 0 \/ behind > 0

\* a pull that leaves the local branch as it was
PullRebaseSkipped(b) == b

\* if (branchExistsOnRemote) { git fetch origin <branch>;
\* git pull --rebase origin <branch> }: the commits of the other writer are
\* now below the local commit
PullRebase(b) == IF BranchExistsOnRemote THEN 0 ELSE b

FetchRebase ==
  /\ pc = "rebase"
  /\ behind' = PullRebase(behind)
  /\ pc' = "push"
  /\ UNCHANGED <<exitCode, exitAt, env, variant, steps, i, newChanges, accumulatedChanges,
                 promptPrior>>
  /\ UNCHANGED <<disk, head, commits, lastMsg, remote, prVars, flowVars, ghostVars>>
  /\ UNCHANGED unit

\* fetch or pull --rebase fails (network, rebase conflict): rethrown
FetchRebaseFails ==
  /\ pc = "rebase"
  /\ BranchExistsOnRemote
  /\ IF CommitChangesRethrows
     THEN Exit(1)
     ELSE pc' = AfterPush /\ UNCHANGED <<exitCode, exitAt>>
  /\ UNCHANGED <<env, variant, steps, i, newChanges, accumulatedChanges, promptPrior>>
  /\ UNCHANGED <<gitVars, prVars, flowVars, ghostVars>>
  /\ UNCHANGED unit

\* git push origin HEAD / git push -u origin HEAD, the one push of
\* commitChanges: accepted only when the remote branch holds nothing the
\* local branch lacks
PushOk ==
  /\ pc = "push"
  /\ behind = 0
  /\ remote' = commits
  /\ phase' = IF caller = "step" THEN Bump("push") ELSE phase
  /\ pc' = AfterPush
  /\ UNCHANGED <<exitCode, exitAt, env, variant, steps, i, newChanges, accumulatedChanges,
                 promptPrior>>
  /\ UNCHANGED <<disk, head, commits, lastMsg, behind, prVars, flowVars, emptyStep,
                 lastEmit>>
  /\ UNCHANGED unit

\* the push is rejected (the remote branch moved after the fetch) or fails
\* otherwise: rethrown, caught by main().catch; there is no second attempt
PushFails ==
  /\ pc = "push"
  /\ IF CommitChangesRethrows
     THEN Exit(1)
     ELSE pc' = AfterPush /\ UNCHANGED <<exitCode, exitAt>>
  /\ UNCHANGED <<env, variant, steps, i, newChanges, accumulatedChanges, promptPrior>>
  /\ UNCHANGED <<gitVars, prVars, flowVars, ghostVars>>
  /\ UNCHANGED unit

----------------------------------------------------------------------------
(* ensurePullRequest *)

\* a pulls.create on every call
EnsurePRAlwaysCreates(open, next) ==
  [number |-> next, open |-> <<next>> \o open, next |-> next + 1, created |-> TRUE]

\* ensurePullRequest on a repository where pulls.list({head, state: "open"})
\* returns the pull requests numbered `open` and where the next pull request
\* gets the number `next`: the number it returns, the open pull requests and
\* the next number after it, and whether it called pulls.create
EnsurePR(open, next) ==
  IF Len(open) > 0
  THEN [number |-> open[1], open |-> open, next |-> next, created |-> FALSE]
  ELSE [number |-> next, open |-> <<next>>, next |-> next + 1, created |-> TRUE]

\* const prNumber = await ensurePullRequest(octokit, owner, repo, branchName,
\* featureRequest), on the branch the run has just created and pushed
EnsurePullRequest ==
  /\ pc = "ensurePR"
  /\ \/ /\ LET r == EnsurePR(IF prCreated > 0 THEN <<1>> ELSE <<>>, 1)
           IN  /\ prNumber' = r.number
               /\ prCreated' = IF r.created THEN prCreated + 1 ELSE prCreated
               /\ prBody' = IF r.created THEN "initial" ELSE prBody
        /\ pc' = "f_ctx"
        /\ UNCHANGED <<exitCode, exitAt>>
     \/ \* the API call throws
        /\ Exit(1)
        /\ UNCHANGED prVars
  /\ UNCHANGED <<env, variant, steps, i, newChanges, accumulatedChanges, promptPrior>>
  /\ UNCHANGED <<gitVars, flowVars, ghostVars>>
  /\ UNCHANGED unit


----------------------------------------------------------------------------
(* The review/test flows: runFlowOnLatestCommit (after every step) and     *)
(* runFlowOnPR (once, at the end).  Comment bodies are sequences of        *)
(* tokens <<text, number>>, one token per appended paragraph.              *)

T(name) == <<name, 0>>

\* the locals of a flow function in their initial values: as declared on
\* entry, and again once the call has returned and nothing can read them.
\* The two comments of a returned flow stay on the PR, but no later code
\* holds their ids: they are counted in nComments and not kept here.
FlowEntry ==
  /\ reviewBody' = <<>>
  /\ testBody' = <<>>
  /\ fixBody' = <<>>
  /\ reviewComment' = <<>>
  /\ testComment' = <<>>
  /\ reviewAnalysis' = "none"
  /\ gating' = "none"
  /\ proposals' = <<>>
  /\ testResult' = "none"
  /\ iteration' = 0
  /\ testRuns' = 0
  /\ flowResult' = "none"

\* what the try/catch around `git diff` leaves in patchOutput
PatchOutputs == {"diff", "fallback"}

\* runFlowOnLatestCommit is entered: compareCommitsForPR (a failing git log or
\* git diff is caught there and replaced by a fallback text) and, with tests,
\* buildTestContext
RunFlowOnLatestCommit ==
  /\ pc = "f_ctx"
  /\ flow' = "partial"
  /\ FlowEntry
  /\ patch' \in PatchOutputs
  /\ newChanges' = <<>>
  /\ phase' = Bump("review")
  /\ pc' = "f_revc"
  /\ UNCHANGED <<exitCode, exitAt, env, variant, steps, i, accumulatedChanges,
                 promptPrior, disk, head, commits, lastMsg, remote, behind, prNumber,
                 prCreated, prBody, caller, nComments, emptyStep, lastEmit>>
  /\ UNCHANGED unit

\* runFlowOnPR is entered: buildPRContext (a failing git merge-base, git diff
\* or git log is caught there and replaced by a fallback)
RunFlowOnPR ==
  /\ pc = "final"
  /\ flow' = "final"
  /\ FlowEntry
  /\ patch' \in PatchOutputs
  /\ phase' = Bump("final")
  /\ pc' = "f_revc"
  /\ UNCHANGED <<exitCode, exitAt, env, variant, steps, i, newChanges, accumulatedChanges,
                 promptPrior, disk, head, commits, lastMsg, remote, behind, prNumber,
                 prCreated, prBody, caller, nComments, emptyStep, lastEmit>>
  /\ UNCHANGED unit

\* let reviewBody = "### AI Code Review ..."; createComment(...)
CreateReviewComment ==
  /\ pc = "f_revc"
  /\ reviewBody' = <<T("AI Code Review (initializing)")>>
  /\ \/ /\ reviewComment' = reviewBody'
        /\ nComments' = [nComments EXCEPT !.review = @ + 1]
        /\ pc' = "f_review"
        /\ UNCHANGED <<exitCode, exitAt>>
     \/ /\ Exit(1)
        /\ UNCHANGED <<reviewComment, nComments>>
  /\ UNCHANGED <<env, variant, steps, i, newChanges, accumulatedChanges,
                 promptPrior, disk, head, commits, lastMsg, remote, behind, prNumber,
                 prCreated, prBody, flow, caller, testBody, fixBody, testComment,
                 reviewAnalysis, patch, gating, proposals, testResult, iteration,
                 testRuns, flowResult, emptyStep, lastEmit, phase>>
  /\ UNCHANGED unit

\* a build whose partial flow always goes on to the tests
ReviewOnlyNever == FALSE

\* the review-only runFlowOnLatestCommit returns true after the review
ReviewOnly == flow = "partial" /\ variant = "reviewOnly"

\* a generateReview whose catch rethrows
GenerateReviewThrows(llm) ==
  IF llm = "ok"
  THEN [thrown |-> FALSE, analysis |-> "ok"]
  ELSE [thrown |-> TRUE, analysis |-> "none"]

\* generateReview(context): result.object, or in the catch the fallback
\* { summary: "Review parse error", fileAnalyses: [], overallSuggestions: [] }
GenerateReview(llm) ==
  IF llm = "ok"
  THEN [thrown |-> FALSE, analysis |-> "ok"]
  ELSE [thrown |-> FALSE, analysis |-> "fallback"]

\* what handleReviewAgent appends to reviewBody: "**Summary**" and the
\* summary, then the file analyses and the suggestions if there are any (the
\* fallback has none)
ReviewParagraph(analysis) ==
  IF analysis = "ok" THEN T("Summary") ELSE T("Summary: Review parse error")

\* handleReviewAgent: generateReview (its fallback on an LLM error), then
\* updateComment with the summary appended to its own copy of reviewBody
HandleReviewAgent ==
  /\ pc = "f_review"
  /\ \E llm \in LLMOutcomes :
       LET r == GenerateReview(llm)
       IN  IF r.thrown
           THEN /\ Exit(1)
                /\ UNCHANGED <<reviewAnalysis, patch, reviewComment, flowResult>>
           ELSE /\ reviewAnalysis' = r.analysis
                /\ patch' = "none"
                /\ \/ /\ reviewComment' = Append(reviewBody, ReviewParagraph(r.analysis))
                      /\ IF ReviewOnly
                         THEN pc' = "f_return" /\ flowResult' = "true"
                         ELSE pc' = "f_testc" /\ UNCHANGED flowResult
                      /\ UNCHANGED <<exitCode, exitAt>>
                   \/ \* updateComment throws
                      /\ Exit(1)
                      /\ UNCHANGED <<reviewComment, flowResult>>
  /\ UNCHANGED <<env, variant, steps, i, newChanges, accumulatedChanges,
                 promptPrior, disk, head, commits, lastMsg, remote, behind, prNumber,
                 prCreated, prBody, flow, caller, reviewBody, testBody, fixBody,
                 testComment, nComments, gating, proposals, testResult, iteration,
                 testRuns, emptyStep, lastEmit, phase>>
  /\ UNCHANGED unit

\* let testBody = "### AI Test Generation ..."; createComment(...)
CreateTestComment ==
  /\ pc = "f_testc"
  /\ testBody' = <<T("AI Test Generation (initializing)")>>
  /\ \/ /\ testComment' = testBody'
        /\ nComments' = [nComments EXCEPT !.test = @ + 1]
        /\ pc' = "f_gate"
        /\ UNCHANGED <<exitCode, exitAt>>
     \/ /\ Exit(1)
        /\ UNCHANGED <<testComment, nComments>>
  /\ UNCHANGED <<env, variant, steps, i, newChanges, accumulatedChanges,
                 promptPrior, disk, head, commits, lastMsg, remote, behind, prNumber,
                 prCreated, prBody, flow, caller, reviewBody, fixBody,
                 reviewComment, reviewAnalysis, patch, gating, proposals, testResult,
                 iteration, testRuns, flowResult, emptyStep, lastEmit, phase>>
  /\ UNCHANGED unit

\* what the PR comment holds when one of the updateComment calls writing
\* bodies[1], bodies[2], ... in turn throws
BodyAtFailure(current, bodies) ==
  {current} \cup {bodies[j] : j \in 1..(Len(bodies) - 1)}

\* a gatingStepLogic that asks for tests when the LLM call fails
GatingStepLogicGenerates(llm, shouldGenerateTests) ==
  IF llm = "ok"
  THEN [shouldGenerate |-> shouldGenerateTests, reason |-> "reasoning"]
  ELSE [shouldGenerate |-> TRUE, reason |-> "Gating error"]

\* gatingStepLogic(context, reviewAnalysis): the decision of the LLM's object,
\* or in the catch { shouldGenerate: false, reason: "Gating error" }
GatingStepLogic(llm, shouldGenerateTests) ==
  IF llm = "ok"
  THEN [shouldGenerate |-> shouldGenerateTests, reason |-> "reasoning"]
  ELSE [shouldGenerate |-> FALSE, reason |-> "Gating error"]

\* gatingStep (update, LLM decision, update when skipping) and the branch of
\* the flow on gating.shouldGenerate
GatingStep ==
  /\ pc = "f_gate"
  /\ \E llm \in LLMOutcomes, shouldGenerateTests \in BOOLEAN :
       LET d  == GatingStepLogic(llm, shouldGenerateTests)
           g  == IF llm # "ok" THEN "error"
                 ELSE IF shouldGenerateTests THEN "generate" ELSE "skip"
           b1 == Append(testBody, T("Gating Step"))
           b2 == Append(b1, IF d.reason = "Gating error"
                            THEN T("Skipping test generation: Gating error")
                            ELSE T("Skipping test generation: reason"))
           b3 == Append(b2, T("Skipping test generation. Running tests..."))
           updates == IF d.shouldGenerate THEN <<b1>> ELSE <<b1, b2, b3>>
       IN  /\ gating' = g
           /\ phase' = OffPath(d.shouldGenerate)
           /\ \/ /\ testComment' = Last(updates)
                 /\ testBody' = Last(updates)
                 /\ pc' = IF d.shouldGenerate THEN "f_gen" ELSE "f_test"
                 /\ UNCHANGED <<exitCode, exitAt>>
              \/ /\ testComment' \in BodyAtFailure(testComment, updates)
                 /\ Exit(1)
                 /\ UNCHANGED testBody
  /\ UNCHANGED <<env, variant, steps, i, newChanges, accumulatedChanges,
                 promptPrior, disk, head, commits, lastMsg, remote, behind, prNumber,
                 prCreated, prBody, flow, caller, reviewBody, fixBody,
                 reviewComment, nComments, reviewAnalysis, patch, proposals, testResult,
                 iteration, testRuns, flowResult, emptyStep, lastEmit>>
  /\ UNCHANGED unit

\* handleTestGeneration(…, testBody): works on its own copy of testBody;
\* writes the proposals to disk, does not commit
HandleTestGeneration ==
  /\ pc = "f_gen"
  /\ \E ps \in ProposalLists :
       LET b1 == Append(testBody, T("Generating Tests"))
           b2 == Append(b1, IF ps # <<>> THEN T("Proposed new/updated tests")
                            ELSE T("No new test proposals from AI."))
       IN  \/ /\ fixBody' = b2
              /\ testComment' = b2
              /\ disk' = WriteTests(disk, ps)
              /\ pc' = "f_test"
              /\ UNCHANGED <<exitCode, exitAt>>
           \/ \* the first updateComment throws
              /\ Exit(1)
              /\ UNCHANGED <<fixBody, testComment, disk>>
           \/ \* the second updateComment throws
              /\ fixBody' = b2
              /\ testComment' = b1
              /\ disk' = WriteTests(disk, ps)
              /\ Exit(1)
  /\ UNCHANGED <<env, variant, steps, i, newChanges, accumulatedChanges,
                 promptPrior, head, commits, lastMsg, remote, behind, prNumber, prCreated,
                 prBody, flow, caller, reviewBody, testBody, reviewComment,
                 nComments, reviewAnalysis, patch, gating, proposals, testResult,
                 iteration, testRuns, flowResult, emptyStep, lastEmit, phase>>
  /\ UNCHANGED unit

\* let testResult = runLocalTests(): never throws
RunLocalTests ==
  /\ pc = "f_test"
  /\ testResult' \in {"pass", "fail"}
  /\ phase' = OffPath(testResult' = "fail")
  /\ testRuns' = testRuns + 1
  /\ pc' = "f_loop"
  /\ UNCHANGED <<exitCode, exitAt, env, variant, steps, i, newChanges, accumulatedChanges,
                 promptPrior, disk, head, commits, lastMsg, remote, behind, prNumber,
                 prCreated, prBody, flow, caller, reviewBody, testBody, fixBody,
                 reviewComment, testComment, nComments, reviewAnalysis, patch, gating,
                 proposals, iteration, flowResult, emptyStep, lastEmit>>
  /\ UNCHANGED unit

\* a loop condition that allows one iteration more
LoopGuardOffByOne == testResult = "fail" /\ iteration <= maxIterations

\* a loop condition that does not look at the last test run
LoopGuardIgnoresResult == iteration < maxIterations

\* while (testResult.jestFailed && iteration < maxIterations)
LoopGuard == testResult = "fail" /\ iteration < maxIterations

\* the loop test and, when it holds, the head of the loop body:
\* iteration++ ; testBody += "Test Fix #n" ; updateComment
LoopHead ==
  /\ pc = "f_loop"
  /\ IF LoopGuard
     THEN /\ iteration' = iteration + 1
          /\ testBody' = Append(testBody, <<"Test Fix #", iteration + 1>>)
          /\ \/ /\ testComment' = testBody'
                /\ pc' = "f_fix"
                /\ UNCHANGED <<exitCode, exitAt>>
             \/ /\ Exit(1)
                /\ UNCHANGED testComment
     ELSE /\ pc' = "f_end"
          /\ UNCHANGED <<exitCode, exitAt, iteration, testBody, testComment>>
  /\ UNCHANGED <<env, variant, steps, i, newChanges, accumulatedChanges,
                 promptPrior, disk, head, commits, lastMsg, remote, behind, prNumber,
                 prCreated, prBody, flow, caller, reviewBody, fixBody,
                 reviewComment, nComments, reviewAnalysis, patch, gating, proposals,
                 testResult, testRuns, flowResult, emptyStep, lastEmit, phase>>
  /\ UNCHANGED unit

\* handleTestFix(…, iteration, testResult.output, testCommentId, testBody) up to
\* its commitChanges: update, generateTestFixProposals ([] on an LLM error),
\* then either commitTestsLocally + commitChanges or the "no proposals" update
HandleTestFix ==
  /\ pc = "f_fix"
  /\ \E ps \in ProposalLists :
       LET b1 == Append(testBody, <<"Test Fix Attempt #", iteration>>)
           b2 == Append(b1, T("No fix proposals were returned."))
       IN  \/ \* the first updateComment throws
              /\ Exit(1)
              /\ UNCHANGED <<fixBody, testComment, proposals, disk, caller>>
           \/ /\ ps # <<>>
              /\ fixBody' = b1
              /\ testComment' = b1
              /\ proposals' = ps
              /\ disk' = WriteTests(disk, ps)
              /\ caller' = "fix"
              /\ pc' = "commit"
              /\ UNCHANGED <<exitCode, exitAt>>
           \/ /\ ps = <<>>
              /\ fixBody' = b2
              /\ proposals' = ps
              /\ UNCHANGED <<disk, caller>>
              /\ \/ /\ testComment' = b2
                    /\ pc' = "f_test"
                    /\ UNCHANGED <<exitCode, exitAt>>
                 \/ /\ testComment' = b1
                    /\ Exit(1)
  /\ UNCHANGED <<env, variant, steps, i, newChanges, accumulatedChanges,
                 promptPrior, head, commits, lastMsg, remote, behind, prNumber, prCreated,
                 prBody, flow, reviewBody, testBody, reviewComment, nComments,
                 reviewAnalysis, patch, gating, testResult, iteration, testRuns,
                 flowResult, emptyStep, lastEmit, phase>>
  /\ UNCHANGED unit

\* handleTestFix after its commitChanges returned: the list of fixes is
\* appended and the comment updated
HandleTestFixCommitted ==
  /\ pc = "f_fixed"
  /\ fixBody' = Append(fixBody, T("Proposed test fixes"))
  /\ \/ /\ testComment' = fixBody'
        /\ pc' = "f_test"
        /\ UNCHANGED <<exitCode, exitAt>>
     \/ /\ Exit(1)
        /\ UNCHANGED testComment
  /\ UNCHANGED <<env, variant, steps, i, newChanges, accumulatedChanges,
                 promptPrior, disk, head, commits, lastMsg, remote, behind, prNumber,
                 prCreated, prBody, flow, caller, reviewBody, testBody,
                 reviewComment, nComments, reviewAnalysis, patch, gating, proposals,
                 testResult, iteration, testRuns, flowResult, emptyStep, lastEmit,
                 phase>>
  /\ UNCHANGED unit

\* a flow that reports success whatever the last test run said
FlowVerdictAlwaysTrue == "true"

\* if (!testResult.jestFailed) return true else return false
FlowVerdict == IF testResult # "fail" THEN "true" ELSE "false"

\* step 9 of the flow: the final line of the test comment and the result
FlowEnd ==
  /\ pc = "f_end"
  /\ testBody' = Append(testBody,
                        IF FlowVerdict = "true" THEN T("All tests passing")
                        ELSE <<"Tests failing after fix attempts: ", maxIterations>>)
  /\ \/ /\ testComment' = testBody'
        /\ flowResult' = FlowVerdict
        /\ pc' = "f_return"
        /\ UNCHANGED <<exitCode, exitAt>>
     \/ /\ Exit(1)
        /\ UNCHANGED <<testComment, flowResult>>
  /\ UNCHANGED <<env, variant, steps, i, newChanges, accumulatedChanges,
                 promptPrior, disk, head, commits, lastMsg, remote, behind, prNumber,
                 prCreated, prBody, flow, caller, reviewBody, fixBody,
                 reviewComment, nComments, reviewAnalysis, patch, gating, proposals,
                 testResult, iteration, testRuns, emptyStep, lastEmit, phase>>
  /\ UNCHANGED unit

----------------------------------------------------------------------------
(* main(): after a flow returned *)

\* success = await runFlowOnLatestCommit(...); if (!success) process.exit(1);
\* then the next step of the for loop, or the final flow
AfterPartialFlow ==
  /\ pc = "f_return"
  /\ flow = "partial"
  /\ phase' = Bump("reviewed")
  /\ IF FlowFailed
     THEN Exit(1) /\ UNCHANGED i
     ELSE /\ UNCHANGED <<exitCode, exitAt>>
          /\ IF i < Len(steps)
             THEN i' = NextStep /\ pc' = "gen"
             ELSE pc' = "final" /\ UNCHANGED i
  /\ IF FlowFailed
     THEN UNCHANGED <<caller, reviewBody, testBody, fixBody, reviewComment,
                      testComment, reviewAnalysis, patch, gating, proposals, testResult,
                      iteration, testRuns, flowResult>>
     ELSE FlowEntry /\ caller' = "none" /\ UNCHANGED patch
  /\ UNCHANGED <<env, variant, steps, newChanges, accumulatedChanges, promptPrior,
                 disk, head, commits, lastMsg, remote, behind, prNumber, prCreated, prBody,
                 flow, nComments, emptyStep, lastEmit>>
  /\ UNCHANGED unit

\* finalSuccess = await runFlowOnPR(...); if (!finalSuccess) process.exit(1)
AfterFinalFlow ==
  /\ pc = "f_return"
  /\ flow = "final"
  /\ IF FlowFailed
     THEN Exit(1)
     ELSE pc' = "prUpdate" /\ UNCHANGED <<exitCode, exitAt>>
  /\ UNCHANGED <<env, variant, steps, i, newChanges, accumulatedChanges,
                 promptPrior, disk, head, commits, lastMsg, remote, behind, prNumber,
                 prCreated, prBody, flow, caller, reviewBody, testBody, fixBody,
                 reviewComment, testComment, nComments, reviewAnalysis, patch, gating,
                 proposals, testResult, iteration, testRuns, flowResult, emptyStep,
                 lastEmit, phase>>
  /\ UNCHANGED unit

\* the final update without its try/catch
PRUpdateUncaught == FALSE

\* try { await octokit.pulls.update(...) } catch (err) { console.error(...) }
PRUpdateCaught == TRUE

\* try { octokit.pulls.update({body: "All steps done. ..."}) } catch { log };
\* main() returns and the process ends with code 0
UpdatePRBody ==
  /\ pc = "prUpdate"
  /\ \/ prBody' = "ready" /\ Exit(0)
     \/ \* the API call throws
        /\ UNCHANGED prBody
        /\ IF PRUpdateCaught THEN Exit(0) ELSE Exit(1)
  /\ UNCHANGED <<env, variant, steps, i, newChanges, accumulatedChanges,
                 promptPrior, disk, head, commits, lastMsg, remote, behind, prNumber,
                 prCreated, flow, caller, reviewBody, testBody, fixBody,
                 reviewComment, testComment, nComments, reviewAnalysis, patch, gating,
                 proposals, testResult, iteration, testRuns, flowResult, emptyStep,
                 lastEmit, phase>>
  /\ UNCHANGED unit

----------------------------------------------------------------------------
Next ==
  \/ CheckEnv
  \/ SwitchToFeatureBranch
  \/ RunPlanner
  \/ GetFileChangesForStep
  \/ ApplyFileChanges
  \/ MergeChanges
  \/ CommitOk
  \/ CommitFails
  \/ ForeignPush
  \/ FetchRebase
  \/ FetchRebaseFails
  \/ PushOk
  \/ PushFails
  \/ EnsurePullRequest
  \/ RunFlowOnLatestCommit
  \/ RunFlowOnPR
  \/ CreateReviewComment
  \/ HandleReviewAgent
  \/ CreateTestComment
  \/ GatingStep
  \/ HandleTestGeneration
  \/ RunLocalTests
  \/ LoopHead
  \/ HandleTestFix
  \/ HandleTestFixCommitted
  \/ FlowEnd
  \/ AfterPartialFlow
  \/ AfterFinalFlow
  \/ UpdatePRBody

Spec == Init /\ [][Next]_vars

\* the run is a sequential program: it takes its next step as long as it has one
LiveSpec == Spec /\ WF_vars(Next)

-----------------------------------------------------------------------------
(* Functions of the pipeline run on their own: `unit` holds the arguments  *)
(* (and the outcomes of the external calls the function makes), the locals *)
(* and the result of one call.                                             *)

\* ensurePullRequest called again and again with the same arguments: the open
\* pull requests from owner:branch before the first call, and GitHub's state
\* and the numbers returned since
EnsurePRInputs ==
  {[fn |-> "ensurePullRequest", open0 |-> o, open |-> o, next |-> n, calls |-> 0,
    returned |-> <<>>, created |-> 0] :
     o \in {<<>>, <<1>>, <<2, 1>>}, n \in {3, 4}}

\* one call that returns
EnsurePRCall ==
  /\ unit.fn = "ensurePullRequest"
  /\ unit.calls < MaxCalls
  /\ LET r == EnsurePR(unit.open, unit.next)
     IN  unit' = [unit EXCEPT !.open = r.open,
                              !.next = r.next,
                              !.calls = @ + 1,
                              !.returned = Append(@, r.number),
                              !.created = IF r.created THEN @ + 1 ELSE @]
  /\ UNCHANGED progVars

\* one call that throws: pulls.list rejects, or pulls.create rejects with or
\* without the pull request having been created
EnsurePRCallThrows ==
  /\ unit.fn = "ensurePullRequest"
  /\ unit.calls < MaxCalls
  /\ \/ unit' = [unit EXCEPT !.calls = @ + 1]
     \/ /\ Len(unit.open) = 0
        /\ LET r == EnsurePR(unit.open, unit.next)
           IN  unit' = [unit EXCEPT !.open = r.open,
                                    !.next = r.next,
                                    !.calls = @ + 1,
                                    !.created = IF r.created THEN @ + 1 ELSE @]
  /\ UNCHANGED progVars

\* runLocalFlow(): a synchronous function.  lpc is its position, pending the
\* number of handleTestFix promises it has created that have not settled,
\* rejected the number of those that have rejected.
RunLocalFlowInputs ==
  {[fn |-> "runLocalFlow", lpc |-> "test", testResult |-> "none", iteration |-> 0,
    testRuns |-> 0, pending |-> 0, rejected |-> 0, result |-> "none"]}

\* let testResult = runLocalTests(); if (!testResult.jestFailed) return true
\* and, in the loop, testResult = runLocalTests()
LocalRunTests ==
  /\ unit.fn = "runLocalFlow"
  /\ unit.lpc = "test"
  /\ \E r \in {"pass", "fail"} :
       unit' = [unit EXCEPT !.testResult = r,
                            !.testRuns = @ + 1,
                            !.lpc = IF unit.testRuns = 0 /\ r = "pass"
                                    THEN "returned" ELSE "loop",
                            !.result = IF unit.testRuns = 0 /\ r = "pass"
                                       THEN "true" ELSE @]
  /\ UNCHANGED progVars

\* while (testResult.jestFailed && iteration < maxIterations) { iteration++ ...
\* and, after the loop, return !testResult.jestFailed
LocalLoopHead ==
  /\ unit.fn = "runLocalFlow"
  /\ unit.lpc = "loop"
  /\ IF unit.testResult = "fail" /\ unit.iteration < maxIterations
     THEN unit' = [unit EXCEPT !.iteration = @ + 1, !.lpc = "fix"]
     ELSE unit' = [unit EXCEPT !.lpc = "returned",
                               !.result = IF unit.testResult = "fail"
                                          THEN "false" ELSE "true"]
  /\ UNCHANGED progVars

\* handleTestFix(null as any, {...}, iteration, testResult.output, 0, "") as
\* a statement, without await: the async function runs up to its first await
\* (await updateComment, before its LLM call) and its promise is dropped;
\* nothing of it can run on while the synchronous runLocalFlow has the thread
HandleTestFixNotAwaited(pending) == pending + 1

LocalHandleTestFix ==
  /\ unit.fn = "runLocalFlow"
  /\ unit.lpc = "fix"
  /\ unit' = [unit EXCEPT !.pending = HandleTestFixNotAwaited(@), !.lpc = "test"]
  /\ UNCHANGED progVars

\* after runLocalFlow has returned the suspended calls run on: octokit is
\* null, so updateComment throws and the promise rejects, before any LLM call
\* and before any write
LocalFixRejects ==
  /\ unit.fn = "runLocalFlow"
  /\ unit.lpc = "returned"
  /\ unit.pending > 0
  /\ unit' = [unit EXCEPT !.pending = @ - 1, !.rejected = @ + 1]
  /\ UNCHANGED progVars

\* runPlanner(featureRequest)
RunPlannerInputs ==
  {[fn |-> "runPlanner", apiKey |-> k, llm |-> l, n |-> n, done |-> FALSE,
    thrown |-> FALSE, steps |-> <<>>] :
     k \in BOOLEAN, l \in LLMOutcomes, n \in 0..MaxSteps}

RunPlannerCall ==
  /\ unit.fn = "runPlanner"
  /\ ~unit.done
  /\ LET r == RunPlannerOutcome(unit.apiKey, unit.llm, unit.n)
     IN  unit' = [unit EXCEPT !.done = TRUE, !.thrown = r.thrown, !.steps = r.steps]
  /\ UNCHANGED progVars

\* Strings are sequences of tokens; a property that is not there has the
\* value Undefined.
Undefined == <<"undefined">>

\* JavaScript truthiness of a string-or-undefined
Truthy(str) == str # Undefined /\ str # <<>>

\* a catch that leaves the output as stdout and stderr gave it
RunLocalTestsNoFallback(cmd, stdout, stderr, message) ==
  IF cmd = "exit0"
  THEN [thrown |-> FALSE, jestFailed |-> FALSE, output |-> stdout]
  ELSE [thrown |-> FALSE, jestFailed |-> TRUE,
        output |-> (IF Truthy(stdout) THEN stdout ELSE <<>>)
                   \o (IF Truthy(stderr) THEN <<"\n">> \o stderr ELSE <<>>)]

\* runLocalTests(): execSync("npm run test") returns stdout when the command
\* exits 0 and throws err (with err.stdout, err.stderr, err.message) when it
\* exits non-zero or cannot be run
RunLocalTestsResult(cmd, stdout, stderr, message) ==
  IF cmd = "exit0"
  THEN [thrown |-> FALSE, jestFailed |-> FALSE, output |-> stdout]
  ELSE LET out    == IF Truthy(stdout) THEN stdout ELSE <<>>
           outErr == IF Truthy(stderr) THEN out \o <<"\n">> \o stderr ELSE out
       IN  [thrown |-> FALSE, jestFailed |-> TRUE,
            output |-> IF outErr = <<>>
                       THEN (IF Truthy(message) THEN message ELSE <<"Unknown error">>)
                       ELSE outErr]

RunLocalTestsInputs ==
  {[fn |-> "runLocalTests", cmd |-> "exit0", stdout |-> o, stderr |-> Undefined,
    message |-> Undefined, done |-> FALSE, thrown |-> FALSE, jestFailed |-> FALSE,
    output |-> <<>>] : o \in {<<>>, <<"out">>}}
  \cup
  {[fn |-> "runLocalTests", cmd |-> c, stdout |-> o, stderr |-> e,
    message |-> m, done |-> FALSE, thrown |-> FALSE, jestFailed |-> FALSE,
    output |-> <<>>] :
     c \in {"nonZero", "cannotRun"},
     o \in {Undefined, <<>>, <<"out">>},
     e \in {Undefined, <<>>, <<"err">>},
     m \in {Undefined, <<>>, <<"msg">>}}

RunLocalTestsCall ==
  /\ unit.fn = "runLocalTests"
  /\ ~unit.done
  /\ LET r == RunLocalTestsResult(unit.cmd, unit.stdout, unit.stderr, unit.message)
     IN  unit' = [unit EXCEPT !.done = TRUE, !.thrown = r.thrown,
                              !.jestFailed = r.jestFailed, !.output = r.output]
  /\ UNCHANGED progVars

\* A test file name: dir says whether it holds "__tests__/unit" (it is then
\* "__tests__/unit/<base><ext>", else "<base><ext>"); ext is "ts" for a name
\* ending in ".test.ts", "tsx" for one ending in ".test.tsx", "none" for any
\* other ending (".spec.ts").
TestNames == [dir : BOOLEAN, base : {"a", "b"}, ext : {"ts", "tsx", "none"}]

\* context.changedFiles: whether the file name ends in ".tsx", and the file's
\* content: not set, without or with a React import
ChangedFiles == [tsx : BOOLEAN, content : {"undefined", "plain", "react"}]

\* const isReact = context.changedFiles.some(file => { if (!file.content)
\* return false; return file.filename.endsWith(".tsx") || ...import React... })
IsReact(changedFiles) ==
  \E k \in 1..Len(changedFiles) :
     /\ changedFiles[k].content # "undefined"
     /\ changedFiles[k].tsx \/ changedFiles[k].content = "react"

\* newFilename.replace(/\.test\.ts$/, ".test.tsx") when isReact and the name
\* does not end in ".test.tsx"; replace(/\.test\.tsx$/, ".test.ts") when not
\* isReact and the name does not end in ".test.ts"
AdjustExtension(filename, isReact) ==
  IF isReact /\ filename.ext # "tsx"
  THEN [filename EXCEPT !.ext = IF @ = "ts" THEN "tsx" ELSE @]
  ELSE IF ~isReact /\ filename.ext # "ts"
       THEN [filename EXCEPT !.ext = IF @ = "tsx" THEN "ts" ELSE @]
       ELSE filename

\* if (!newFilename.includes("__tests__/unit")) newFilename = "__tests__/unit/" + newFilename
UnderUnitDir(filename) == [filename EXCEPT !.dir = TRUE]

\* proposal.filename.replace(/\.test\.tsx?$/, "")
BaseName(filename) == [filename EXCEPT !.ext = IF @ = "none" THEN "none" ELSE ""]

RemoveAt(seq, j) == SubSeq(seq, 1, j - 1) \o SubSeq(seq, j + 1, Len(seq))

\* one round of the for loop over the renamed proposals; seenBases.get(baseName)
\* is the one element of filtered with that base name
DedupStep(filtered, proposal) ==
  LET same == {j \in 1..Len(filtered) :
                 BaseName(filtered[j].filename) = BaseName(proposal.filename)}
  IN  IF same = {}
      THEN Append(filtered, proposal)
      ELSE LET j == CHOOSE x \in same : TRUE
           IN  IF proposal.filename.ext = "tsx" /\ filtered[j].filename.ext # "tsx"
               THEN Append(RemoveAt(filtered, j), proposal)
               ELSE filtered

RECURSIVE Dedup(_, _)
Dedup(renamed, filtered) ==
  IF renamed = <<>>
  THEN filtered
  ELSE Dedup(Tail(renamed), DedupStep(filtered, Head(renamed)))

\* finalizeTestProposals(rawProposals, context)
FinalizeTestProposals(rawProposals, changedFiles) ==
  Dedup([k \in 1..Len(rawProposals) |->
           [rawProposals[k] EXCEPT
              !.filename = UnderUnitDir(AdjustExtension(@, IsReact(changedFiles)))]],
        <<>>)

\* the LLM's testProposals, the k-th one having the content k, and the
\* changed files of the context
FinalizeInputs ==
  {[fn |-> "finalizeTestProposals",
    rawProposals |-> [k \in 1..Len(names) |-> [filename |-> names[k], testContent |-> k]],
    changedFiles |-> files, done |-> FALSE, result |-> <<>>] :
     names \in SeqsUpTo(TestNames, MaxRaw), files \in SeqsUpTo(ChangedFiles, MaxChangedFiles)}

FinalizeCall ==
  /\ unit.fn = "finalizeTestProposals"
  /\ ~unit.done
  /\ unit' = [unit EXCEPT !.done = TRUE,
                          !.result = FinalizeTestProposals(unit.rawProposals,
                                                           unit.changedFiles)]
  /\ UNCHANGED progVars

\* generateTestFixProposals(context, testErrorOutput, iteration):
\* result.object.testProposals as the LLM gave them, or [] in the catch
GenerateTestFixProposals(llm, rawProposals) ==
  IF llm = "ok" THEN rawProposals ELSE <<>>

\* the changed files as compareCommitsForPR and buildPRContext build them:
\* content: undefined
PipelineChangedFiles == {f \in ChangedFiles : f.content = "undefined"}

FixProposalsInputs ==
  {[fn |-> "generateTestFixProposals", llm |-> l,
    rawProposals |-> [k \in 1..Len(names) |-> [filename |-> names[k], testContent |-> k]],
    changedFiles |-> files, done |-> FALSE, result |-> <<>>] :
     l \in LLMOutcomes, names \in SeqsUpTo(TestNames, MaxRaw),
     files \in SeqsUpTo(PipelineChangedFiles, MaxChangedFiles)}

\* const proposals = await generateTestFixProposals(...) in handleTestFix;
\* the proposals go to commitTestsLocally as returned
FixProposalsCall ==
  /\ unit.fn = "generateTestFixProposals"
  /\ ~unit.done
  /\ unit' = [unit EXCEPT !.done = TRUE,
                          !.result = GenerateTestFixProposals(unit.llm, unit.rawProposals)]
  /\ UNCHANGED progVars

\* A diff text: what stands before the first "diff --git " (lead, a string)
\* and, for each "diff --git " that follows, the file name of its header line.
\* diffText.split("diff --git ")
SplitOnDiffGit(diffText) ==
  << [text |-> diffText.lead, match |-> FALSE, name |-> "none"] >> \o
  [k \in 1..Len(diffText.segs) |->
     [text |-> <<"a/", diffText.segs[k], " b/", diffText.segs[k]>>, match |-> TRUE,
      name |-> diffText.segs[k]]]

\* parseDiffToChangedFiles(diffText): one entry for every piece that is not
\* blank, named by the header's b/ path or "unknown.file"
ParseDiffToChangedFiles(diffText) ==
  LET pieces == SelectSeq(SplitOnDiffGit(diffText), LAMBDA seg : seg.text # <<>>)
  IN  [k \in 1..Len(pieces) |->
         [filename |-> IF pieces[k].match THEN pieces[k].name ELSE "unknown.file",
          content |-> "undefined"]]

\* step 2 and 3 of compareCommitsForPR: git diff HEAD~1 HEAD prints one
\* "diff --git" block per changed file, and throws when HEAD has no parent
CompareCommitsForPR(hasParent, files) ==
  LET patchOutput == IF hasParent
                     THEN [lead |-> <<>>, segs |-> files]
                     ELSE [lead |-> <<"No patch found (possibly first commit?)">>,
                           segs |-> <<>>]
  IN  ParseDiffToChangedFiles(patchOutput)

CompareCommitsInputs ==
  {[fn |-> "compareCommitsForPR", hasParent |-> h, files |-> fs, done |-> FALSE,
    changedFiles |-> <<>>] :
     h \in BOOLEAN, fs \in SeqsUpTo(Paths, MaxChangedFiles)}

CompareCommitsCall ==
  /\ unit.fn = "compareCommitsForPR"
  /\ ~unit.done
  /\ unit' = [unit EXCEPT !.done = TRUE,
                          !.changedFiles = CompareCommitsForPR(unit.hasParent, unit.files)]
  /\ UNCHANGED progVars

\* A file of the working tree as the snapshot functions see it: where it is
\* (a source file, a lock file of excludeFiles, a file in a directory of
\* excludeDirs) and the length of its content.  The k-th file of a tree has
\* the path k.
TreeFiles ==
  [kind : {"source", "lockfile", "excludedDir"},
   length : {SnapshotCap - 1, SnapshotCap, SnapshotCap + 1}]

Included(tree) == {k \in 1..Len(tree) : tree[k].kind = "source"}

\* the snippet of one included file: the planner's walk truncates a file
\* over the cap (content.slice(0, 20000) + "... [TRUNCATED]"), the file-change
\* generator's walk skips it (return)
Snippet(policy, path, file) ==
  IF file.length > SnapshotCap
  THEN IF policy = "truncate"
       THEN <<[path |-> path, length |-> SnapshotCap, truncated |-> TRUE]>>
       ELSE <<>>
  ELSE <<[path |-> path, length |-> file.length, truncated |-> FALSE]>>

\* the snippets of a snapshot in the order of the walk, from file k on
RECURSIVE Snapshot(_, _, _)
Snapshot(tree, k, policy) ==
  IF k > Len(tree) THEN <<>>
  ELSE (IF k \in Included(tree) THEN Snippet(policy, k, tree[k]) ELSE <<>>)
       \o Snapshot(tree, k + 1, policy)

GatherCodebaseContextForPlanner(tree) == Snapshot(tree, 1, "truncate")

GatherFullCodebaseContextForFeature(tree) == Snapshot(tree, 1, "skip")

SnapshotInputs ==
  {[fn |-> "snapshot", tree |-> t, done |-> FALSE, planner |-> <<>>, feature |-> <<>>] :
     t \in SeqsUpTo(TreeFiles, MaxTreeFiles)}

\* both snapshot functions on the same working tree
SnapshotCall ==
  /\ unit.fn = "snapshot"
  /\ ~unit.done
  /\ unit' = [unit EXCEPT !.done = TRUE,
                          !.planner = GatherCodebaseContextForPlanner(unit.tree),
                          !.feature = GatherFullCodebaseContextForFeature(unit.tree)]
  /\ UNCHANGED progVars

\* commitTestsLocally(proposals) on a directory of two files.  A file holds
\* NoFile (it does not exist), OldFile (what it held before the call) or the
\* testContent of the k-th proposal, <<"proposal", k>>.
TestFileNames == {"x.test.ts", "y.test.ts"}
NoFile == <<"absent", 0>>
OldFile == <<"old", 0>>

ActionProposals ==
  [filename : TestFileNames, action : {"create", "update", "rename"},
   oldFilename : TestFileNames \cup {""}]

\* a loop body that removes oldFilename whatever the action is
CommitOneAnyAction(d, p, content) ==
  LET removes == p.oldFilename # "" /\ p.oldFilename # p.filename
      d1 == IF removes THEN [d EXCEPT ![p.oldFilename] = NoFile] ELSE d
  IN  [d1 EXCEPT ![p.filename] = content]

\* one round of the loop of commitTestsLocally: if the action is rename and
\* oldFilename is non-empty and differs from filename, fs.rmSync(oldPath) when
\* it exists; then fs.writeFileSync(localPath, p.testContent)
CommitOne(d, p, content) ==
  LET removes == p.action = "rename" /\ p.oldFilename # "" /\ p.oldFilename # p.filename
      d1 == IF removes THEN [d EXCEPT ![p.oldFilename] = NoFile] ELSE d
  IN  [d1 EXCEPT ![p.filename] = content]

\* for (const p of proposals) { ... }, from the k-th proposal on
RECURSIVE CommitTestsLocally(_, _, _)
CommitTestsLocally(d, ps, k) ==
  IF k > Len(ps) THEN d
  ELSE CommitTestsLocally(CommitOne(d, ps[k], <<"proposal", k>>), ps, k + 1)

CommitTestsInputs ==
  {[fn |-> "commitTestsLocally", proposals |-> ps, disk0 |-> d, disk |-> d,
    done |-> FALSE] :
     ps \in SeqsUpTo(ActionProposals, MaxRaw),
     d \in [TestFileNames -> {NoFile, OldFile}]}

CommitTestsCall ==
  /\ unit.fn = "commitTestsLocally"
  /\ ~unit.done
  /\ unit' = [unit EXCEPT !.done = TRUE,
                          !.disk = CommitTestsLocally(unit.disk, unit.proposals, 1)]
  /\ UNCHANGED progVars

\* The writes of one step to the working tree: applyFileChanges(newChanges),
\* then in the step's flow the commitTestsLocally of handleTestGeneration (at
\* most once) and of handleTestFix (at most maxIterations times).  A FileChange
\* of the step may name any path, a test file included; the generator's
\* proposals are under __tests__/unit, the repairer's are wherever the LLM
\* put them.
StepWritesInputs ==
  {[fn |-> "stepWrites", changes |-> cs, stage |-> "apply",
    disk |-> [p \in AllPaths |-> Absent], generated |-> FALSE, repairs |-> 0] :
     cs \in SeqsUpTo([file : AllPaths, content : Contents], MaxChanges)}

\* applyFileChanges(newChanges)
StepApply ==
  /\ unit.fn = "stepWrites"
  /\ unit.stage = "apply"
  /\ unit' = [unit EXCEPT !.disk = WriteAll(@, unit.changes), !.stage = "flow"]
  /\ UNCHANGED progVars

\* handleTestGeneration: commitTestsLocally(proposals) with one proposal
StepGenerateTests ==
  /\ unit.fn = "stepWrites"
  /\ unit.stage = "flow"
  /\ ~unit.generated
  /\ unit.repairs = 0
  /\ \E f \in TestPaths, c \in Contents :
       unit' = [unit EXCEPT
                  !.disk = WriteTests(@, <<[filename |-> f, testContent |-> c]>>),
                  !.generated = TRUE]
  /\ UNCHANGED progVars

\* handleTestFix: commitTestsLocally(proposals) with one proposal of the
\* repairer
StepRepairTests ==
  /\ unit.fn = "stepWrites"
  /\ unit.stage = "flow"
  /\ unit.repairs < maxIterations
  /\ \E f \in AllPaths, c \in Contents :
       unit' = [unit EXCEPT
                  !.disk = WriteTests(@, <<[filename |-> f, testContent |-> c]>>),
                  !.repairs = @ + 1]
  /\ UNCHANGED progVars

\* the flow returns true: the step has completed
StepCompletes ==
  /\ unit.fn = "stepWrites"
  /\ unit.stage = "flow"
  /\ unit' = [unit EXCEPT !.stage = "done"]
  /\ UNCHANGED progVars

\* runFlowOnPR / runFlowOnLatestCommit seen from the context object: the test
\* files under __tests__/unit and the commit messages of the branch, the
\* context built from them, and the context each handleTestFix call is given
TreeView(tests, messages) ==
  [existingTestFiles |-> tests, commitMessages |-> messages]

RepairContextInputs ==
  {[fn |-> "repairContext", stage |-> "build",
    tests |-> t, messages |-> 1,
    context |-> TreeView([f \in TestPaths |-> Absent], 0),
    given |-> TreeView([f \in TestPaths |-> Absent], 0),
    treeAtCall |-> TreeView([f \in TestPaths |-> Absent], 0),
    iteration |-> 0] :
     t \in [TestPaths -> Contents \cup {Absent}]}

\* const testContext = await buildTestContext(octokit, baseContext)
BuildTestContext ==
  /\ unit.fn = "repairContext"
  /\ unit.stage = "build"
  /\ unit' = [unit EXCEPT !.context = TreeView(unit.tests, unit.messages),
                          !.stage = "generate"]
  /\ UNCHANGED progVars

\* gating says skip, or handleTestGeneration writes the proposals of the
\* generator with commitTestsLocally (no commit is made there)
ContextGenerateTests ==
  /\ unit.fn = "repairContext"
  /\ unit.stage = "generate"
  /\ \/ unit' = [unit EXCEPT !.stage = "loop"]
     \/ \E f \in TestPaths, c \in Contents :
          unit' = [unit EXCEPT !.tests = [@ EXCEPT ![f] = c], !.stage = "loop"]
  /\ UNCHANGED progVars

\* one pass of the repair loop: handleTestFix(octokit, testContext, iteration,
\* ...) is given the context built before the loop; with proposals it writes
\* them and commits "AI test fix attempt #n"
ContextHandleTestFix ==
  /\ unit.fn = "repairContext"
  /\ unit.stage = "loop"
  /\ unit.iteration < maxIterations
  /\ \/ unit' = [unit EXCEPT !.iteration = @ + 1,
                             !.given = unit.context,
                             !.treeAtCall = TreeView(unit.tests, unit.messages)]
     \/ \E f \in TestPaths, c \in Contents :
          unit' = [unit EXCEPT !.iteration = @ + 1,
                               !.given = unit.context,
                               !.treeAtCall = TreeView(unit.tests, unit.messages),
                               !.tests = [@ EXCEPT ![f] = c],
                               !.messages = @ + 1]
  /\ UNCHANGED progVars

UnitInputs ==
  EnsurePRInputs \cup RunLocalFlowInputs \cup RunPlannerInputs \cup RunLocalTestsInputs
    \cup FinalizeInputs \cup FixProposalsInputs \cup CompareCommitsInputs
    \cup SnapshotInputs \cup CommitTestsInputs \cup StepWritesInputs
    \cup RepairContextInputs

UnitInit ==
  /\ ProgramInit
  /\ env = [featureRequest |-> TRUE, githubToken |-> TRUE,
            githubRepository |-> TRUE, apiKey |-> TRUE]
  /\ variant = "tests"
  /\ unit \in UnitInputs

UnitNext ==
  \/ EnsurePRCall
  \/ EnsurePRCallThrows
  \/ LocalRunTests
  \/ LocalLoopHead
  \/ LocalHandleTestFix
  \/ LocalFixRejects
  \/ RunPlannerCall
  \/ RunLocalTestsCall
  \/ FinalizeCall
  \/ FixProposalsCall
  \/ CompareCommitsCall
  \/ SnapshotCall
  \/ CommitTestsCall
  \/ StepApply
  \/ StepGenerateTests
  \/ StepRepairTests
  \/ StepCompletes
  \/ BuildTestContext
  \/ ContextGenerateTests
  \/ ContextHandleTestFix

UnitSpec == UnitInit /\ [][UnitNext]_vars


----------------------------------------------------------------------------
(* Vocabulary of the properties *)

\* the run is at statement p, or ended there
Where(p) == pc = p \/ (pc = "exit" /\ exitAt = p)

NoDuplicatePaths(acc) ==
  \A a, b \in 1..Len(acc) : a # b => acc[a].file # acc[b].file

\* Last-write-wins over everything emitted so far, stated on the record of
\* emissions: one entry per emitted path, holding its latest content, in the
\* order of latest emission
Touched == {p \in Paths : lastEmit[p].n > 0}

Ledger ==
  [k \in 1..Cardinality(Touched) |->
     LET p == CHOOSE q \in Touched : lastEmit[q].n = k
     IN  [file |-> p, content |-> lastEmit[p].content]]

\* the FileChanges of the step in progress have been returned by
\* getFileChangesForStep and its accumulation loop has not run yet
MergePending ==
  \/ Where("apply")
  \/ Where("merge")
  \/ i >= 2 /\ caller = "step" /\ (Where("commit") \/ Where("rebase") \/ Where("push"))

\* the repair loop of a flow is running
InRepairLoop ==
  \/ pc \in {"f_test", "f_loop", "f_fix", "f_fixed"}
  \/ pc \in {"commit", "rebase", "push"} /\ caller = "fix"

----------------------------------------------------------------------------
(* C1 .. C10 *)

C1_Bounded ==
  /\ iteration <= maxIterations
  /\ testRuns <= maxIterations + 1
  /\ testRuns <= iteration + 1
  /\ Where("f_end") => (testResult = "pass" \/ iteration = maxIterations)
  /\ (Where("f_return") /\ ~ReviewOnly) =>
        (testResult = "pass" \/ flowResult = "false")

\* C1: in runFlowOnPR and in the review-plus-tests runFlowOnLatestCommit the
\* repair loop runs at most maxIterations = 3 times (at most 4 test runs), it
\* always comes to an end, and when it has ended either the last test run
\* passed or the flow reports failure.
C1_RepairLoopTerminates ==
  /\ []C1_Bounded
  /\ InRepairLoop ~> (pc \in {"f_end", "exit"})

C1_Witness ==
  /\ pc = "f_return"
  /\ flow = "partial"
  /\ iteration = maxIterations
  /\ testRuns = maxIterations + 1
  /\ flowResult = "false"

\* C2: runFlowOnPR returns true exactly when its last test run passed; it
\* returns false only after exactly 3 fix attempts, the run after the third
\* still failing.
C2_FinalFlowResult ==
  (Where("f_return") /\ flow = "final") =>
     /\ flowResult = "true" <=> testResult = "pass"
     /\ flowResult = "false" =>
          (iteration = 3 /\ testRuns = 4 /\ testResult = "fail")

C2_Witness ==
  /\ pc = "f_return"
  /\ flow = "final"
  /\ flowResult = "true"
  /\ iteration = 2
  /\ testRuns = 3

\* C3 as claimed: at every point of a run accumulatedChanges has at most one
\* entry per path, each entry is the most recent FileChange emitted for its
\* path by any step so far, and the entries are in order of last touch.
C3_LedgerAtEveryPoint ==
  /\ NoDuplicatePaths(accumulatedChanges)
  /\ accumulatedChanges = Ledger

\* C3 as amended: at every point accumulatedChanges has at most one entry per
\* path; and at every point at which no step's FileChanges are waiting for
\* their accumulation loop, each entry is the most recent FileChange emitted
\* for its path (also when one step emits a path twice) and the entries are
\* in order of last touch.
C3_LedgerOnceMerged ==
  /\ NoDuplicatePaths(accumulatedChanges)
  /\ ~MergePending => accumulatedChanges = Ledger

C3_Witness ==
  /\ pc = "f_ctx"
  /\ i = 2
  /\ Len(newChanges) = 2
  /\ newChanges[1].file = newChanges[2].file
  /\ newChanges[1].content # newChanges[2].content
  /\ Len(accumulatedChanges) = 2
  /\ accumulatedChanges[2] = newChanges[2]

\* C4: for every step i > 1, the accumulated changes passed to
\* getFileChangesForStep hold every FileChange of the steps 1..i-1, latest
\* content per path.
C4_PriorChangesPassed ==
  [][(pc = "gen" /\ i > 1) => promptPrior' = Ledger]_vars

C4_Witness ==
  /\ pc = "apply"
  /\ i = 2
  /\ Len(promptPrior) = 2

\* C5: for every step the order is: changes obtained, written to disk,
\* committed, pushed, partial review; the next step's work, and the final
\* flow, start only after that.
C5_StepOrder ==
  /\ phase.gen >= phase.write
  /\ phase.write >= phase.commit
  /\ phase.commit >= phase.push
  /\ phase.push >= phase.review
  /\ phase.review >= phase.reviewed
  /\ phase.gen <= phase.reviewed + 1
  /\ phase.final > 0 => (phase.reviewed = phase.gen /\ phase.gen = Len(steps))

C5_Witness ==
  /\ phase.reviewed = 2
  /\ phase.final = 1
  /\ pc = "f_revc"

C8_PlanErrorIsTerminal ==
  steps = <<"PlanError">> =>
     /\ pc = "exit" /\ exitCode = 0
     /\ phase.gen = 0
     /\ commits = 0
     /\ remote = 0
     /\ prNumber = 0

\* C9: a step whose file-change list is empty makes no commit and gets no
\* partial review, counts as successful, and the pipeline goes on.
C9_EmptyStepIsNoOp ==
  emptyStep =>
     /\ phase.commit < phase.gen
     /\ phase.review < phase.gen
     /\ phase.final = 0 => pc # "exit"

\* C10 as claimed: the process exits with code 0 only when the final flow has
\* run and succeeded.
C10_ExitZeroOnlyAfterFinal ==
  exitCode = 0 => (phase.final = 1 /\ flow = "final" /\ flowResult = "true")

\* C10 as amended: the process exits with code 0 only when the planner
\* returned no steps (nothing generated, committed, pushed or opened), or when
\* the final flow has run and succeeded.
C10_ExitZeroCases ==
  exitCode = 0 =>
     \/ /\ exitAt = "plan"
        /\ steps = <<>>
        /\ phase.gen = 0 /\ commits = 0 /\ remote = 0 /\ prNumber = 0
     \/ /\ exitAt = "prUpdate"
        /\ phase.final = 1
        /\ flow = "final"
        /\ flowResult = "true"
        /\ testResult = "pass"

C10_Witness ==
  /\ exitCode = 0
  /\ exitAt = "prUpdate"
  /\ prBody = "ready"
  /\ iteration = 1

----------------------------------------------------------------------------
(* C11 .. C20 *)

\* C11: when the final flow ends with the tests still failing after the 3
\* repair attempts, the process exits with code 1 and the PR body is never
\* set to the "ready for final review" text.
C11_FinalFailureExitsOne ==
  (flow = "final" /\ flowResult = "false") =>
     /\ iteration = maxIterations
     /\ pc \in {"f_return", "exit"}
     /\ pc = "exit" => (exitCode = 1 /\ exitAt = "f_return")
     /\ prBody # "ready"

C11_Witness ==
  /\ pc = "exit"
  /\ exitAt = "f_return"
  /\ exitCode = 1
  /\ flow = "final"
  /\ flowResult = "false"
  /\ prBody = "initial"

C13_StrictlyForward ==
  /\ phase.plan <= 1
  /\ phase.gen > 0 => phase.plan = 1
  /\ phase.gen <= Len(steps)
  /\ i > 0 => phase.gen = (IF pc = "gen" THEN i - 1 ELSE i)
  /\ phase.final <= 1
  /\ phase.final = 1 =>
        (i = Len(steps) /\ phase.gen = Len(steps) /\ phase.reviewed = Len(steps))

C13_Witness ==
  /\ pc = "f_return"
  /\ flow = "final"
  /\ phase.plan = 1
  /\ phase.gen = 2
  /\ phase.final = 1

\* C14: in the final flow, when gating asks for tests and the generator
\* returns proposals, the proposals are written to disk and then committed and
\* pushed before the first test run.
C14_GeneratedTestsCommitted ==
  (/\ flow = "final"
   /\ gating = "generate"
   /\ pc = "f_test"
   /\ testRuns = 0
   /\ fixBody # <<>>
   /\ Last(fixBody) = T("Proposed new/updated tests")) =>
     (head = disk /\ remote = commits)

\* C15: a failing createComment or updateComment call is not fatal: the run
\* never ends at a review-surface call.
C15_CommentFailureNotFatal ==
  ~(/\ pc = "exit"
    /\ exitAt \in {"f_revc", "f_review", "f_testc", "f_gate", "f_gen",
                   "f_loop", "f_fix", "f_fixed", "f_end"})

\* C16: a failure of the final PR-body update after a successful final flow
\* does not turn success into failure: the run ends with exit code 0.
C16_PRUpdateFailureKeepsSuccess ==
  (pc = "exit" /\ exitAt = "prUpdate") =>
     (exitCode = 0 /\ flow = "final" /\ flowResult = "true")

C16_Witness ==
  /\ pc = "exit"
  /\ exitAt = "prUpdate"
  /\ exitCode = 0
  /\ prBody = "initial"

C18_ConfigErrorBeforeSideEffects ==
  ~(env.featureRequest /\ env.githubToken /\ env.githubRepository /\ env.apiKey) =>
     /\ ~Where("plan")
     /\ pc = "exit" => exitCode = 1

\* C19 as claimed: a single-step run in which gating never asks for tests and
\* no test run fails ends with exit code 0, one commit, one review comment
\* and one test comment, and the PR open.
C19_SingleStepOneOfEach ==
  (/\ pc = "exit"
   /\ exitCode = 0
   /\ Len(steps) = 1
   /\ phase.offPath = 0) =>
     /\ commits = 1
     /\ prNumber = 1
     /\ nComments = [review |-> 1, test |-> 1]

\* C19 as amended: such a run ends with exit code 0, exactly one commit on the
\* branch, pushed, and the PR open; it has created two review comments (the
\* partial flow's and the final flow's) and one test comment when the partial
\* flow is review-only, two when the partial flow runs the tests as well.
C19_SingleStepCounts ==
  (/\ pc = "exit"
   /\ exitCode = 0
   /\ Len(steps) = 1
   /\ phase.offPath = 0) =>
     /\ commits = 1
     /\ remote = 1
     /\ prNumber = 1
     /\ prCreated = 1
     /\ nComments.review = 2
     /\ nComments.test = (IF variant = "reviewOnly" THEN 1 ELSE 2)

C19_Witness ==
  /\ pc = "exit"
  /\ exitCode = 0
  /\ Len(steps) = 1
  /\ phase.offPath = 0
  /\ variant = "reviewOnly"
  /\ nComments.test = 1
  /\ prBody = "ready"

\* C20: when the pipeline aborts, the status comment written last ends with
\* the failure marker.
C20_AbortLeavesFailureMarker ==
  (pc = "exit" /\ exitCode = 1 /\ testComment # <<>>) =>
     Last(testComment)[1] = "Tests failing after fix attempts: "


-----------------------------------------------------------------------------
(* C21 .. C30 *)

\* C21: ensurePullRequest called repeatedly with the same arguments creates
\* a pull request only when no open pull request from owner:branch exists
\* (so at most once), and every call that returns, returns the number the
\* first call returned.
C21_EnsurePRIdempotent ==
  unit.fn = "ensurePullRequest" =>
    /\ \A k \in 1..Len(unit.returned) : unit.returned[k] = unit.returned[1]
    /\ unit.created <= 1
    /\ unit.created = 1 => unit.open0 = <<>>
    /\ unit.open0 # <<>> => unit.open = unit.open0

C21_Witness ==
  /\ unit.fn = "ensurePullRequest"
  /\ unit.open0 = <<>>
  /\ Len(unit.returned) >= 2
  /\ unit.created = 1
  /\ unit.returned[2] = unit.returned[1]

\* C24: in every flow, runLocalFlow included, a repair attempt has completed
\* before the next test run or the next repair attempt starts: no test run
\* starts with a repair attempt unsettled, and no two repair attempts are
\* unsettled at once.
C24_RepairCompletesBeforeNextRun ==
  unit.fn = "runLocalFlow" =>
    /\ unit.lpc = "test" => unit.pending = 0
    /\ unit.pending <= 1

\* C25: when the planner's LLM call throws or its answer fails the schema,
\* runPlanner does not throw and returns exactly one step, named PlanError.
C25_PlannerErrorGivesPlanError ==
  (unit.fn = "runPlanner" /\ unit.done /\ unit.apiKey /\ unit.llm # "ok") =>
    /\ ~unit.thrown
    /\ Len(unit.steps) = 1
    /\ unit.steps[1] = "PlanError"

C25_Witness ==
  /\ unit.fn = "runPlanner"
  /\ unit.done
  /\ unit.apiKey
  /\ unit.llm = "schema"
  /\ unit.steps = <<"PlanError">>

\* C28: runLocalTests never throws; it returns jestFailed = true exactly when
\* the test command exits non-zero or cannot be run, and then its output is
\* not empty.
C28_RunLocalTestsTotal ==
  (unit.fn = "runLocalTests" /\ unit.done) =>
    /\ ~unit.thrown
    /\ unit.jestFailed <=> unit.cmd # "exit0"
    /\ unit.jestFailed => (unit.output # <<>> /\ unit.output # Undefined)

C28_Witness ==
  /\ unit.fn = "runLocalTests"
  /\ unit.done
  /\ unit.cmd = "cannotRun"
  /\ ~Truthy(unit.stdout)
  /\ ~Truthy(unit.stderr)
  /\ unit.jestFailed
  /\ unit.output \in {<<"msg">>, <<"Unknown error">>}

\* C29: after finalizeTestProposals no two proposals have the same base name,
\* and when the LLM proposed both a .test.ts and a .test.tsx file for one
\* base name, the .test.tsx proposal (its name and its content) is in the
\* result and no .test.ts file of that base name is.
C29_OnePerBaseMarkupWins ==
  (unit.fn = "finalizeTestProposals" /\ unit.done) =>
    /\ \A a, b \in 1..Len(unit.result) :
          a # b => BaseName(unit.result[a].filename) # BaseName(unit.result[b].filename)
    /\ \A x, y \in 1..Len(unit.rawProposals) :
          LET plain  == unit.rawProposals[x].filename
              markup == unit.rawProposals[y].filename
          IN  (/\ plain.ext = "ts"
               /\ markup.ext = "tsx"
               /\ BaseName(UnderUnitDir(plain)) = BaseName(UnderUnitDir(markup))) =>
                /\ \E r \in 1..Len(unit.result) :
                      /\ unit.result[r].filename = UnderUnitDir(markup)
                      /\ \E z \in 1..Len(unit.rawProposals) :
                            /\ UnderUnitDir(unit.rawProposals[z].filename) =
                                 UnderUnitDir(markup)
                            /\ unit.rawProposals[z].testContent =
                                 unit.result[r].testContent
                /\ \A r \in 1..Len(unit.result) :
                      unit.result[r].filename # UnderUnitDir(plain)

\* C30: after finalizeTestProposals, every proposal with a test suffix ends in
\* .test.tsx if some changed file is a .tsx file or has a React import, and in
\* .test.ts otherwise.
C30_ExtensionFollowsDiff ==
  (unit.fn = "finalizeTestProposals" /\ unit.done) =>
    LET react == \E k \in 1..Len(unit.changedFiles) :
                    unit.changedFiles[k].tsx \/ unit.changedFiles[k].content = "react"
    IN  \A r \in 1..Len(unit.result) :
           unit.result[r].filename.ext # "none" =>
              unit.result[r].filename.ext = (IF react THEN "tsx" ELSE "ts")

C27_GatingErrorSkipsGeneration ==
  gating = "error" =>
    /\ ~Where("f_gen")
    /\ \A k \in 1..Len(testComment) : testComment[k] # T("Generating Tests")
    /\ ~Where("f_gate") =>
          /\ \E k \in 1..Len(testBody) :
                testBody[k] = T("Skipping test generation: Gating error")
          /\ pc # "f_test" => testRuns >= 1

C27_Witness ==
  /\ gating = "error"
  /\ pc = "f_loop"
  /\ testRuns = 1
  /\ disk = head

\* the run is inside commitChanges, or ended there
InCommitChanges == Where("commit") \/ Where("rebase") \/ Where("push")

\* C22: whenever commitChanges has returned normally (after every completed
\* step and after every test-fix commit) the remote branch holds every commit
\* of the local branch and nothing the local branch lacks: the remote tip is
\* the local tip.
C22_RemoteTipIsLocalTip ==
  ~InCommitChanges => (remote = commits /\ behind = 0)

C22_Witness ==
  /\ pc = "f_fixed"
  /\ caller = "fix"
  /\ commits >= 2
  /\ remote = commits
  /\ behind = 0

-----------------------------------------------------------------------------
(* C31 .. C40 *)

\* C31: every test proposal handed to commitTestsLocally, by the generator
\* (after finalizeTestProposals) and by the repairer, has a path under
\* __tests__/unit.
C31_WrittenUnderTestRoot ==
  (unit.fn \in {"finalizeTestProposals", "generateTestFixProposals"} /\ unit.done) =>
     \A r \in 1..Len(unit.result) : unit.result[r].filename.dir

\* C32: the proposals the repairer returns obey the generator's laws: no two
\* of them have the same base name, and every one with a test suffix has the
\* extension the generator would give it.
C32_RepairerObeysPostProcessing ==
  (unit.fn = "generateTestFixProposals" /\ unit.done) =>
    /\ \A a, b \in 1..Len(unit.result) :
          a # b => BaseName(UnderUnitDir(unit.result[a].filename)) #
                   BaseName(UnderUnitDir(unit.result[b].filename))
    /\ \A r \in 1..Len(unit.result) :
          unit.result[r].filename.ext # "none" =>
             unit.result[r].filename.ext =
               (IF IsReact(unit.changedFiles) THEN "tsx" ELSE "ts")

\* C33: when HEAD has no parent commit, the context compareCommitsForPR
\* builds has an empty list of changed files.
C33_NoParentEmptyDiff ==
  (unit.fn = "compareCommitsForPR" /\ unit.done /\ ~unit.hasParent) =>
     unit.changedFiles = <<>>

\* C36: for every working tree the planner's snapshot and the file-change
\* generator's snapshot hold the same files with the same contents.
C36_SameSnapshotPolicy ==
  (unit.fn = "snapshot" /\ unit.done) => unit.planner = unit.feature

\* the proposal p asks for the removal of the file f
RenamesAway(p, f) ==
  p.action = "rename" /\ p.oldFilename = f /\ p.oldFilename # p.filename

\* C37: commitTestsLocally removes a file only as the oldFilename of a rename
\* proposal whose oldFilename is non-empty and differs from its filename (for
\* create and update the oldFilename is ignored); a file no proposal names is
\* left as it was; and after the call the filename of every proposal holds
\* that proposal's testContent unless a later proposal of the list wrote the
\* same file or renamed it away.
C37_CommitTestsLocallyFrame ==
  (unit.fn = "commitTestsLocally" /\ unit.done) =>
    LET ps == unit.proposals
    IN  /\ \A f \in TestFileNames :
              (unit.disk0[f] # NoFile /\ unit.disk[f] = NoFile) =>
                 \E k \in 1..Len(ps) : RenamesAway(ps[k], f)
        /\ \A f \in TestFileNames :
              (\A k \in 1..Len(ps) : ps[k].filename # f /\ ~RenamesAway(ps[k], f)) =>
                 unit.disk[f] = unit.disk0[f]
        /\ \A k \in 1..Len(ps) :
              (\A j \in (k + 1)..Len(ps) :
                  ps[j].filename # ps[k].filename /\ ~RenamesAway(ps[j], ps[k].filename)) =>
                 unit.disk[ps[k].filename] = <<"proposal", k>>

C37_Witness ==
  /\ unit.fn = "commitTestsLocally"
  /\ unit.done
  /\ Len(unit.proposals) = 2
  /\ unit.proposals[1].action = "update"
  /\ unit.proposals[1].filename = "x.test.ts"
  /\ unit.proposals[1].oldFilename = "y.test.ts"
  /\ unit.proposals[2].action = "rename"
  /\ unit.proposals[2].filename = "y.test.ts"
  /\ unit.proposals[2].oldFilename = "x.test.ts"
  /\ unit.disk0["y.test.ts"] = OldFile
  /\ unit.disk["x.test.ts"] = NoFile
  /\ unit.disk["y.test.ts"] = <<"proposal", 2>>

\* C34: when a step has completed, every path the step wrote holds the
\* content of the step's last FileChange for that path: the test generation
\* and the repairs of the step's flow have not altered it.
C34_StepFilesKeepContent ==
  (unit.fn = "stepWrites" /\ unit.stage = "done") =>
     \A k \in 1..Len(unit.changes) :
        (\A j \in (k + 1)..Len(unit.changes) :
            unit.changes[j].file # unit.changes[k].file) =>
           unit.disk[unit.changes[k].file] = unit.changes[k].content

\* C35: at every repair iteration the context given to the repairer (the
\* existing test files and the commits of the branch) is the working tree as
\* it is at that call, after the most recent commit and test write.
C35_RepairContextIsFresh ==
  (unit.fn = "repairContext" /\ unit.iteration > 0) =>
     unit.given = unit.treeAtCall

IsPrefix(a, b) == Len(a) <= Len(b) /\ SubSeq(b, 1, Len(a)) = a

\* C38: within one flow invocation the body of the test status comment only
\* grows: every update of the comment writes a body that has the body written
\* before it as a prefix.
C38_TestCommentOnlyGrows ==
  [][(testComment # <<>> /\ testComment' # <<>>) =>
        IsPrefix(testComment, testComment')]_vars

\* handleTestFix is running (its own statements or the commitChanges it calls)
InHandleTestFix ==
  \/ pc \in {"f_fix", "f_fixed"}
  \/ pc \in {"commit", "rebase", "push"} /\ caller = "fix"

\* C39: in the repair loop handleTestFix runs only after a failed test run,
\* with an iteration number in 1..3 that equals the number of test runs made so
\* far in the flow (the n-th call follows the n-th run, and one run follows each
\* call); the number grows by exactly one per pass, handleTestFix returns to
\* the test run only, and its commit is named "AI test fix attempt #n".
C39_RepairLoopAlternates ==
  /\ [](/\ InHandleTestFix =>
             /\ testResult = "fail"
             /\ iteration \in 1..maxIterations
             /\ testRuns = iteration
        /\ pc = "f_test" => testRuns = iteration
        /\ pc = "f_loop" => testRuns = iteration + 1)
  /\ [][/\ iteration' # iteration =>
             \/ iteration' = iteration + 1 /\ pc = "f_loop"
             \/ iteration' = 0
        /\ (InHandleTestFix /\ ~InHandleTestFix') => pc' \in {"f_test", "exit"}
        /\ (testRuns' # testRuns /\ testRuns' # 0) =>
             (pc = "f_test" /\ testRuns' = testRuns + 1)
        /\ (pc = "commit" /\ caller = "fix" /\ pc' = "rebase") =>
             lastMsg' = <<"AI test fix attempt", iteration>>]_vars

C39_Witness ==
  /\ pc = "f_test"
  /\ iteration = maxIterations
  /\ testRuns = maxIterations
  /\ lastMsg = <<"AI test fix attempt", maxIterations>>

\* C40: a repair attempt whose repairer returned at least one proposal creates
\* a commit: when handleTestFix reaches its commitChanges the working tree
\* differs from HEAD, so that git commit has something to commit.
C40_ProposalsGiveACommit ==
  (pc = "commit" /\ caller = "fix") => disk # head

====
